---- MODULE Spec2Model ----
(***************************************************************************)
(* The Reddit hyperlink pipeline: network_analysis.py aggregates the       *)
(* records of processed_reddit_data.csv into a directed graph and saves it *)
(* as reddit_network.gexf; conflict_analysis.py loads that file, detects   *)
(* communities and computes the conflict-propagation tables.               *)
(*                                                                         *)
(* Subreddit names are numbered 1..n in ascending name order.  Floats are  *)
(* modelled as exact rationals <<numerator, denominator>> in lowest terms. *)
(* A Python dict is a record [keys, at]: keys is the insertion order, at   *)
(* the mapping.                                                            *)
(***************************************************************************)
EXTENDS Integers, Sequences, FiniteSets, TLC

\* Length of the longest dataframe explored.
MaxRows == 2

\* The subreddit names that occur in the dataframe (a fixed universe of three).
Subreddits == {1, 2, 3}

\* pd.NaT: what pd.to_datetime(errors='coerce') leaves for a bad timestamp.
NaT == 0
\* pd.Timestamp.min and pd.Timestamp.max, the defaults of the running min/max.
TimestampMin == 1
TimestampMax == 9
\* The parseable timestamps of the dataframe (a fixed universe of one).
Timestamps == {2}

\* POST_LABEL values: -1 is a negative post.
Labels == {-1, 1}

Rows == [SOURCE_SUBREDDIT : Subreddits, TARGET_SUBREDDIT : Subreddits,
         TIMESTAMP : Timestamps \cup {NaT}, POST_LABEL : Labels]

VARIABLES
    pc,                \* position in the pipeline
    idx,               \* rows of df consumed by the loop of create_subreddit_network
    subreddit_stats,   \* dict subreddit -> node statistics
    edge_stats,        \* dict (source, target) -> edge statistics
    G,                 \* the DiGraph: [nodes: dict, edges: dict]
    net_report,        \* what analyze_network has computed so far
    gexf,              \* content of reddit_network.gexf
    communities,       \* main's partition (conflict_analysis.py line 128)
    acp_communities,   \* the partition local to analyze_conflict_propagation
    community_stats,   \* dict community id -> conflict statistics
    inter_community_conflicts,  \* dict source community -> dict target community -> conflict
    bridge_nodes,      \* dict node -> bridge score
    report,            \* main's three rankings
    comm_graph,        \* the community-level graph of visualize_conflict_network
    error,             \* the exception that ended the pipeline, or "none"
    permuted           \* a second dataframe: the rows consumed so far in another order

aggVars == <<idx, subreddit_stats, edge_stats, permuted>>
netVars == <<net_report, gexf>>
acpVars == <<acp_communities, community_stats, inter_community_conflicts, bridge_nodes>>
outVars == <<report, comm_graph>>

vars == <<pc, aggVars, G, netVars, communities, acpVars, outVars, error>>

------------------------------------------------------------------------------
(* Python helpers *)

Min(a, b) == IF a <= b THEN a ELSE b
Max(a, b) == IF a >= b THEN a ELSE b

RECURSIVE GCD(_, _)
GCD(a, b) == IF b = 0 THEN a ELSE GCD(b, a % b)

\* n / d as a float: the exact rational in lowest terms.
Div(n, d) == LET g == GCD(n, d) IN IF g = 0 THEN <<0, 1>> ELSE <<n \div g, d \div g>>

\* ratio * w for an integer w whose product is integral.
Times(ratio, w) == (ratio[1] * w) \div ratio[2]

\* a < b on rationals.
RatLess(a, b) == a[1] * b[2] < b[1] * a[2]

EmptyDict == [keys |-> <<>>, at |-> [k \in {} |-> 0]]
Has(d, k) == k \in DOMAIN d.at
Get(d, k, default) == IF Has(d, k) THEN d.at[k] ELSE default
Put(d, k, v) ==
    [keys |-> IF Has(d, k) THEN d.keys ELSE Append(d.keys, k),
     at   |-> [x \in (DOMAIN d.at) \cup {k} |-> IF x = k THEN v ELSE d.at[x]]]

------------------------------------------------------------------------------
(* network_analysis.py: create_subreddit_network *)

NodeDefault ==
    [out_degree |-> 0, in_degree |-> 0, total_posts |-> 0, negative_posts |-> 0,
     first_seen |-> TimestampMax, last_seen |-> TimestampMin,
     source_count |-> 0, target_count |-> 0]

EdgeDefault ==
    [weight |-> 0, negative_count |-> 0,
     first_link_time |-> TimestampMax, last_link_time |-> TimestampMin]

\* UpdateNode with total_posts counted for the source role only.
UpdateNode_TotalForSourceOnly(stats, sub, role, timestamp, is_negative) ==
    LET s == Get(stats, sub, NodeDefault)
        s2 == IF role = "source"
              THEN [s EXCEPT !.total_posts = @ + 1, !.out_degree = @ + 1,
                             !.source_count = @ + 1]
              ELSE [s EXCEPT !.in_degree = @ + 1, !.target_count = @ + 1]
        s3 == IF is_negative THEN [s2 EXCEPT !.negative_posts = @ + 1] ELSE s2
        s4 == [s3 EXCEPT !.first_seen = Min(@, timestamp),
                         !.last_seen = Max(@, timestamp)]
    IN Put(stats, sub, s4)

\* UpdateNode with the two branches of line 59 exchanged.
UpdateNode_RolesSwapped(stats, sub, role, timestamp, is_negative) ==
    LET s == Get(stats, sub, NodeDefault)
        s1 == [s EXCEPT !.total_posts = @ + 1]
        s2 == IF role = "source"
              THEN [s1 EXCEPT !.in_degree = @ + 1, !.target_count = @ + 1]
              ELSE [s1 EXCEPT !.out_degree = @ + 1, !.source_count = @ + 1]
        s3 == IF is_negative THEN [s2 EXCEPT !.negative_posts = @ + 1] ELSE s2
        s4 == [s3 EXCEPT !.first_seen = Min(@, timestamp),
                         !.last_seen = Max(@, timestamp)]
    IN Put(stats, sub, s4)

\* One pass of the inner loop, lines 58-70, for (sub, role).
UpdateNode(stats, sub, role, timestamp, is_negative) ==
    LET s == Get(stats, sub, NodeDefault)
        s1 == [s EXCEPT !.total_posts = @ + 1]
        s2 == IF role = "source"
              THEN [s1 EXCEPT !.out_degree = @ + 1, !.source_count = @ + 1]
              ELSE [s1 EXCEPT !.in_degree = @ + 1, !.target_count = @ + 1]
        s3 == IF is_negative THEN [s2 EXCEPT !.negative_posts = @ + 1] ELSE s2
        s4 == [s3 EXCEPT !.first_seen = Min(@, timestamp),
                         !.last_seen = Max(@, timestamp)]
    IN Put(stats, sub, s4)

\* UpdateEdge where a negative row sets negative_count to the weight.
UpdateEdge_NegativeFromWeight(stats, edge, timestamp, is_negative) ==
    LET s == Get(stats, edge, EdgeDefault)
        s1 == [s EXCEPT !.weight = @ + 1]
        s2 == IF is_negative THEN [s1 EXCEPT !.negative_count = s1.weight] ELSE s1
        s3 == [s2 EXCEPT !.first_link_time = Min(@, timestamp),
                         !.last_link_time = Max(@, timestamp)]
    IN Put(stats, edge, s3)

\* Lines 73-78.
UpdateEdge(stats, edge, timestamp, is_negative) ==
    LET s == Get(stats, edge, EdgeDefault)
        s1 == [s EXCEPT !.weight = @ + 1]
        s2 == IF is_negative THEN [s1 EXCEPT !.negative_count = @ + 1] ELSE s1
        s3 == [s2 EXCEPT !.first_link_time = Min(@, timestamp),
                         !.last_link_time = Max(@, timestamp)]
    IN Put(stats, edge, s3)

\* The body of the loop of lines 43-78 on one row: the statistics after it.
AggregateRow(stats, row) ==
    LET source == row.SOURCE_SUBREDDIT
        target == row.TARGET_SUBREDDIT
        timestamp == row.TIMESTAMP
        is_negative == row.POST_LABEL = -1
    IN IF timestamp = NaT
       THEN stats
       ELSE [subreddit_stats |->
                UpdateNode(UpdateNode(stats.subreddit_stats, source, "source",
                                      timestamp, is_negative),
                           target, "target", timestamp, is_negative),
             edge_stats |-> UpdateEdge(stats.edge_stats, <<source, target>>,
                                       timestamp, is_negative)]

\* One iteration of the loop of lines 43-78 on the next row of df.
ProcessRow ==
    /\ pc = "aggregate"
    /\ idx < MaxRows
    /\ \E row \in Rows :
        LET after == AggregateRow([subreddit_stats |-> subreddit_stats,
                                   edge_stats |-> edge_stats], row)
        IN /\ subreddit_stats' = after.subreddit_stats
           /\ edge_stats' = after.edge_stats
    /\ idx' = idx + 1
    /\ UNCHANGED <<pc, G, netVars, communities, acpVars, outVars, error, permuted>>

\* df.iterrows() is exhausted.
EndOfRows ==
    /\ pc = "aggregate"
    /\ pc' = "build"
    /\ UNCHANGED <<aggVars, G, netVars, communities, acpVars, outVars, error>>

\* strftime of a running min/max, '' when it is still the default.
TimeStr(t, default) == IF t # default THEN t ELSE NaT

\* NodeAttrs where a tie of the two counts gives 'source'.
NodeAttrs_SourceOnTie(stats) ==
    [out_degree |-> stats.out_degree,
     in_degree |-> stats.in_degree,
     total_posts |-> stats.total_posts,
     negative_ratio |-> IF stats.total_posts > 0
                        THEN Div(stats.negative_posts, stats.total_posts)
                        ELSE <<0, 1>>,
     primary_type |-> IF stats.source_count >= stats.target_count
                      THEN "source" ELSE "target",
     first_seen |-> TimeStr(stats.first_seen, TimestampMax),
     last_seen |-> TimeStr(stats.last_seen, TimestampMin)]

\* Lines 84-99: the attributes of one node.
NodeAttrs(stats) ==
    [out_degree |-> stats.out_degree,
     in_degree |-> stats.in_degree,
     total_posts |-> stats.total_posts,
     negative_ratio |-> IF stats.total_posts > 0
                        THEN Div(stats.negative_posts, stats.total_posts)
                        ELSE <<0, 1>>,
     primary_type |-> IF stats.source_count > stats.target_count
                      THEN "source" ELSE "target",
     first_seen |-> TimeStr(stats.first_seen, TimestampMax),
     last_seen |-> TimeStr(stats.last_seen, TimestampMin)]

\* Lines 104-111: the attributes of one edge.
EdgeAttrs(stats) ==
    [weight |-> stats.weight,
     neg_label_ratio |-> Div(stats.negative_count, stats.weight),
     first_link_time |-> TimeStr(stats.first_link_time, TimestampMax),
     last_link_time |-> TimeStr(stats.last_link_time, TimestampMin)]

\* Lines 82-99: G.add_node for every item of subreddit_stats, in its order.
RECURSIVE AddNodes(_, _, _)
AddNodes(stats, from, acc) ==
    IF from > Len(stats.keys) THEN acc
    ELSE AddNodes(stats, from + 1,
                  Put(acc, stats.keys[from], NodeAttrs(stats.at[stats.keys[from]])))

\* Lines 102-111: G.add_edge for every item of edge_stats, in its order.
RECURSIVE AddEdges(_, _, _)
AddEdges(stats, from, acc) ==
    IF from > Len(stats.keys) THEN acc
    ELSE AddEdges(stats, from + 1,
                  Put(acc, stats.keys[from], EdgeAttrs(stats.at[stats.keys[from]])))

\* Lines 82-113.
BuildNetwork ==
    /\ pc = "build"
    /\ G' = [nodes |-> AddNodes(subreddit_stats, 1, EmptyDict),
             edges |-> AddEdges(edge_stats, 1, EmptyDict)]
    /\ pc' = "analyze_network"
    /\ UNCHANGED <<aggVars, netVars, communities, acpVars, outVars, error>>

------------------------------------------------------------------------------
(* network_analysis.py: analyze_network and main *)

number_of_nodes(g) == Len(g.nodes.keys)
number_of_edges(g) == Len(g.edges.keys)

\* nx.density of a directed graph: m / (n (n - 1)), 0 for fewer than two nodes.
density(g) ==
    LET n == number_of_nodes(g)
    IN IF n <= 1 THEN <<0, 1>> ELSE Div(number_of_edges(g), n * (n - 1))

\* Lines 117-128: counts, density and the two degree lists.
AnalyzeNetwork ==
    /\ pc = "analyze_network"
    /\ net_report' = [nodes |-> number_of_nodes(G), edges |-> number_of_edges(G),
                      density |-> density(G)]
    /\ pc' = "degree_stats"
    /\ UNCHANGED <<aggVars, G, gexf, communities, acpVars, outVars, error>>

\* Lines 130-166: min() and max() of the degree and weight lists; min of an
\* empty list raises ValueError, which nothing catches.
DegreeStats ==
    /\ pc = "degree_stats"
    /\ IF number_of_nodes(G) = 0
       THEN /\ error' = "ValueError"
            /\ pc' = "error"
       ELSE /\ pc' = "save"
            /\ UNCHANGED error
    /\ UNCHANGED <<aggVars, G, netVars, communities, acpVars, outVars>>

\* Lines 181-188: nx.write_gexf.
SaveNetwork ==
    /\ pc = "save"
    /\ gexf' = G
    /\ pc' = "saved"
    /\ UNCHANGED <<aggVars, G, net_report, communities, acpVars, outVars, error>>

------------------------------------------------------------------------------
(* conflict_analysis.py *)

\* load_network, line 125: nx.read_gexf gives back the nodes and the edges in
\* the order write_gexf stored them.
LoadNetwork ==
    /\ pc = "saved"
    /\ G' = gexf
    /\ pc' = "detect"
    /\ UNCHANGED <<aggVars, netVars, communities, acpVars, outVars, error>>

\* G.edges(): the nodes in insertion order, each with its out-edges in the
\* order they were added.
RECURSIVE EdgesFrom(_, _, _)
EdgesFrom(g, n, from) ==
    IF from > Len(g.edges.keys) THEN <<>>
    ELSE (IF g.edges.keys[from][1] = n THEN <<g.edges.keys[from]>> ELSE <<>>)
         \o EdgesFrom(g, n, from + 1)

RECURSIVE EdgesView(_, _)
EdgesView(g, from) ==
    IF from > Len(g.nodes.keys) THEN <<>>
    ELSE EdgesFrom(g, g.nodes.keys[from], 1) \o EdgesView(g, from + 1)

\* community_louvain.best_partition(G.to_undirected()): a dict that gives every
\* node of the graph a community id in 0..k-1.  The library visits the nodes in
\* an order it shuffles with an unseeded generator, so the result is not a
\* function of the graph: any partition may come back.  Communities are
\* numbered here in the order of their lowest node.
best_partition(g) ==
    LET S == DOMAIN g.nodes.at
    IN {p \in [S -> 0 .. Cardinality(S) - 1] :
          \A v \in S : \/ p[v] = 0
                       \/ \E u \in S : u < v /\ p[u] >= p[v] - 1}

\* Line 128.
DetectCommunities ==
    /\ pc = "detect"
    /\ communities' \in best_partition(G)
    /\ pc' = "analyze_conflict"
    /\ UNCHANGED <<aggVars, G, netVars, acpVars, outVars, error>>

\* A key the dict does not hold.
Absent == <<>>

\* Lines 18-25; the two ratio keys are not among the defaults.
CommunityDefault ==
    [out_conflicts |-> 0, in_conflicts |-> 0,
     total_out_links |-> 0, total_in_links |-> 0,
     nodes |-> {}, conflict_ratio |-> <<0, 1>>,
     out_conflict_ratio |-> Absent, in_conflict_ratio |-> Absent]

\* data['neg_label_ratio'] * data['weight']
Conflict(data) == Times(data.neg_label_ratio, data.weight)

\* UpdateCommunityStats with the sums taken over boundary-crossing edges only.
UpdateCommunityStats_CrossingOnly(stats, source_comm, target_comm, u, v, data) ==
    LET cross == source_comm # target_comm
        s == Get(stats, source_comm, CommunityDefault)
        stats1 == Put(stats, source_comm,
                      [s EXCEPT !.out_conflicts = @ + (IF cross THEN Conflict(data) ELSE 0),
                                !.total_out_links = @ + (IF cross THEN data.weight ELSE 0),
                                !.nodes = @ \cup {u}])
        t == Get(stats1, target_comm, CommunityDefault)
    IN Put(stats1, target_comm,
           [t EXCEPT !.in_conflicts = @ + (IF cross THEN Conflict(data) ELSE 0),
                     !.total_in_links = @ + (IF cross THEN data.weight ELSE 0),
                     !.nodes = @ \cup {v}])

\* UpdateCommunityStats with the target left out of its community's members.
UpdateCommunityStats_SourceMemberOnly(stats, source_comm, target_comm, u, v, data) ==
    LET s == Get(stats, source_comm, CommunityDefault)
        stats1 == Put(stats, source_comm,
                      [s EXCEPT !.out_conflicts = @ + Conflict(data),
                                !.total_out_links = @ + data.weight,
                                !.nodes = @ \cup {u}])
        t == Get(stats1, target_comm, CommunityDefault)
    IN Put(stats1, target_comm,
           [t EXCEPT !.in_conflicts = @ + Conflict(data),
                     !.total_in_links = @ + data.weight])

\* Lines 39-45.
UpdateCommunityStats(stats, source_comm, target_comm, u, v, data) ==
    LET s == Get(stats, source_comm, CommunityDefault)
        stats1 == Put(stats, source_comm,
                      [s EXCEPT !.out_conflicts = @ + Conflict(data),
                                !.total_out_links = @ + data.weight,
                                !.nodes = @ \cup {u}])
        t == Get(stats1, target_comm, CommunityDefault)
    IN Put(stats1, target_comm,
           [t EXCEPT !.in_conflicts = @ + Conflict(data),
                     !.total_in_links = @ + data.weight,
                     !.nodes = @ \cup {v}])

\* UpdateInterCommunity without the test of line 48.
UpdateInterCommunity_NoTest(inter, source_comm, target_comm, data) ==
    LET row == Get(inter, source_comm, EmptyDict)
    IN Put(inter, source_comm,
           Put(row, target_comm, Get(row, target_comm, 0) + Conflict(data)))

\* Lines 48-49.
UpdateInterCommunity(inter, source_comm, target_comm, data) ==
    IF source_comm # target_comm
    THEN LET row == Get(inter, source_comm, EmptyDict)
         IN Put(inter, source_comm,
                Put(row, target_comm, Get(row, target_comm, 0) + Conflict(data)))
    ELSE inter

\* UpdateBridgeNodes without line 53: the target's score is not updated.
UpdateBridgeNodes_SourceOnly(bridge, source_comm, target_comm, u, v, data) ==
    IF source_comm # target_comm
    THEN Put(bridge, u, Get(bridge, u, 0) + Conflict(data))
    ELSE bridge

\* Lines 48 and 52-53.
UpdateBridgeNodes(bridge, source_comm, target_comm, u, v, data) ==
    IF source_comm # target_comm
    THEN LET b1 == Put(bridge, u, Get(bridge, u, 0) + Conflict(data))
         IN Put(b1, v, Get(b1, v, 0) + Conflict(data))
    ELSE bridge

\* The loop of lines 34-53 from position `from` of G.edges(data=True).
RECURSIVE EdgeLoop(_, _, _, _, _)
EdgeLoop(g, comm, edges, from, acc) ==
    IF from > Len(edges) THEN acc
    ELSE LET u == edges[from][1]
             v == edges[from][2]
             data == g.edges.at[edges[from]]
         IN EdgeLoop(g, comm, edges, from + 1,
              [stats |-> UpdateCommunityStats(acc.stats, comm[u], comm[v], u, v, data),
               inter |-> UpdateInterCommunity(acc.inter, comm[u], comm[v], data),
               bridge |-> UpdateBridgeNodes(acc.bridge, comm[u], comm[v], u, v, data)])

\* Lines 57-60 for one community: a ratio is stored only when its total is > 0.
ConflictRatios(stats) ==
    LET s1 == IF stats.total_out_links > 0
              THEN [stats EXCEPT !.out_conflict_ratio =
                                    Div(stats.out_conflicts, stats.total_out_links)]
              ELSE stats
    IN IF s1.total_in_links > 0
       THEN [s1 EXCEPT !.in_conflict_ratio =
                          Div(s1.in_conflicts, s1.total_in_links)]
       ELSE s1

\* The loop of lines 56-60.
AllConflictRatios(stats) ==
    [keys |-> stats.keys,
     at |-> [c \in DOMAIN stats.at |-> ConflictRatios(stats.at[c])]]

\* analyze_conflict_propagation(G), called at line 129.
AnalyzeConflictPropagation ==
    /\ pc = "analyze_conflict"
    /\ \E p \in best_partition(G) :
        LET acc == EdgeLoop(G, p, EdgesView(G, 1), 1,
                            [stats |-> EmptyDict, inter |-> EmptyDict,
                             bridge |-> EmptyDict])
        IN /\ acp_communities' = p
           /\ community_stats' = AllConflictRatios(acc.stats)
           /\ inter_community_conflicts' = acc.inter
           /\ bridge_nodes' = acc.bridge
    /\ pc' = "report"
    /\ UNCHANGED <<aggVars, G, netVars, communities, outVars, error>>

\* d.items()
RECURSIVE Items(_, _)
Items(d, from) ==
    IF from > Len(d.keys) THEN <<>>
    ELSE <<(<<d.keys[from], d.at[d.keys[from]]>>)>> \o Items(d, from + 1)

\* sorted(items, key=lambda x: x[1], reverse=True): descending, and stable, so
\* items with equal keys keep the order they had in `items`.  Insert(acc, x, at)
\* puts x before position `at` of the part sorted so far.
Insert(acc, x, at) == SubSeq(acc, 1, at - 1) \o <<x>> \o SubSeq(acc, at, Len(acc))

\* The first position of `acc` among `smaller`, or the end of `acc`.
FirstOf(smaller, acc) ==
    IF smaller = {} THEN Len(acc) + 1
    ELSE CHOOSE i \in smaller : \A j \in smaller : i <= j

\* The keys are bridge scores.
RECURSIVE SortedReverse(_, _, _)
SortedReverse(items, from, acc) ==
    IF from > Len(items) THEN acc
    ELSE LET x == items[from]
             smaller == {i \in 1 .. Len(acc) : acc[i][2] < x[2]}
         IN SortedReverse(items, from + 1, Insert(acc, x, FirstOf(smaller, acc)))

\* The keys are ratios.
RECURSIVE SortedReverseRatio(_, _, _)
SortedReverseRatio(items, from, acc) ==
    IF from > Len(items) THEN acc
    ELSE LET x == items[from]
             smaller == {i \in 1 .. Len(acc) : RatLess(acc[i][2], x[2])}
         IN SortedReverseRatio(items, from + 1, Insert(acc, x, FirstOf(smaller, acc)))

\* The length of the three rankings, [:10].
TopK == 10
Take(seq, k) == SubSeq(seq, 1, Min(k, Len(seq)))

\* [(comm_id, stats[key]) for comm_id, stats in community_stats.items()]
RECURSIVE RatioItems(_, _, _)
RatioItems(stats, key, from) ==
    IF from > Len(stats.keys) THEN <<>>
    ELSE LET c == stats.keys[from]
         IN <<(<<c, IF key = "out" THEN stats.at[c].out_conflict_ratio
                    ELSE stats.at[c].in_conflict_ratio>>)>>
            \o RatioItems(stats, key, from + 1)

\* stats['out_conflict_ratio'] or stats['in_conflict_ratio'] raises KeyError
\* for a community that has no such key.
MissingRatio(stats) ==
    \E c \in DOMAIN stats.at :
        \/ stats.at[c].out_conflict_ratio = Absent
        \/ stats.at[c].in_conflict_ratio = Absent

\* Lines 131-157 of main: the three rankings.
Report ==
    /\ pc = "report"
    /\ IF MissingRatio(community_stats)
       THEN /\ error' = "KeyError"
            /\ pc' = "error"
            /\ UNCHANGED report
       ELSE /\ report' =
                [conflict_sources |->
                    Take(SortedReverseRatio(RatioItems(community_stats, "out", 1),
                                            1, <<>>), TopK),
                 conflict_targets |->
                    Take(SortedReverseRatio(RatioItems(community_stats, "in", 1),
                                            1, <<>>), TopK),
                 top_bridges |->
                    Take(SortedReverse(Items(bridge_nodes, 1), 1, <<>>), TopK)]
            /\ pc' = "visualize"
            /\ UNCHANGED error
    /\ UNCHANGED <<aggVars, G, netVars, communities, acpVars, comm_graph>>

\* Lines 72-76 for one community.
CommNode(stats) ==
    [size |-> Cardinality(stats.nodes),
     out_conflict_ratio |-> stats.out_conflict_ratio,
     in_conflict_ratio |-> stats.in_conflict_ratio]

\* Lines 72-76: comm_graph.add_node for every community, in the dict's order.
RECURSIVE AddCommNodes(_, _, _)
AddCommNodes(stats, from, acc) ==
    IF from > Len(stats.keys) THEN acc
    ELSE AddCommNodes(stats, from + 1,
                      Put(acc, stats.keys[from], CommNode(stats.at[stats.keys[from]])))

\* Lines 79-82: the links with a positive conflict weight.
CommEdges(inter) ==
    LET pairs == {<<a, b>> \in (DOMAIN inter.at) \X (0 .. Cardinality(Subreddits)) :
                     Has(inter.at[a], b) /\ inter.at[a].at[b] > 0}
    IN [e \in pairs |-> inter.at[e[1]].at[e[2]]]

\* Line 110, for the community-graph node `comm`: its members by main's partition.
community_nodes(comm) == {n \in DOMAIN communities : communities[n] = comm}

\* visualize_conflict_network, called at line 161.
Visualize ==
    /\ pc = "visualize"
    /\ IF MissingRatio(community_stats)
       THEN /\ error' = "KeyError"
            /\ pc' = "error"
            /\ UNCHANGED comm_graph
       ELSE /\ comm_graph' =
                [nodes |-> AddCommNodes(community_stats, 1, EmptyDict),
                 edges |-> CommEdges(inter_community_conflicts),
                 labelled |-> {c \in DOMAIN community_stats.at :
                                 community_nodes(c) # {}}]
            /\ pc' = "done"
            /\ UNCHANGED error
    /\ UNCHANGED <<aggVars, G, netVars, communities, acpVars, report>>

------------------------------------------------------------------------------

Init ==
    /\ pc = "aggregate"
    /\ idx = 0
    /\ subreddit_stats = EmptyDict
    /\ edge_stats = EmptyDict
    /\ G = [nodes |-> EmptyDict, edges |-> EmptyDict]
    /\ net_report = [nodes |-> 0, edges |-> 0, density |-> <<0, 1>>]
    /\ gexf = [nodes |-> EmptyDict, edges |-> EmptyDict]
    /\ communities = Absent
    /\ acp_communities = Absent
    /\ community_stats = EmptyDict
    /\ inter_community_conflicts = EmptyDict
    /\ bridge_nodes = EmptyDict
    /\ report = [conflict_sources |-> <<>>, conflict_targets |-> <<>>,
                 top_bridges |-> <<>>]
    /\ comm_graph = [nodes |-> EmptyDict, edges |-> Absent, labelled |-> {}]
    /\ error = "none"
    /\ permuted = <<>>

Next ==
    \/ ProcessRow
    \/ EndOfRows
    \/ BuildNetwork
    \/ AnalyzeNetwork
    \/ DegreeStats
    \/ SaveNetwork
    \/ LoadNetwork
    \/ DetectCommunities
    \/ AnalyzeConflictPropagation
    \/ Report
    \/ Visualize

Spec == Init /\ [][Next]_vars

(* The aggregation run on two orders of the same rows. subreddit_stats and
   edge_stats are the loop of lines 43-78 on the rows in the order they are
   drawn; permuted is a dataframe holding the same rows in another order. *)

\* seq with x placed at position i.
InsertAt(seq, i, x) ==
    SubSeq(seq, 1, i - 1) \o <<x>> \o SubSeq(seq, i, Len(seq))

RECURSIVE Aggregate(_, _, _)
\* The loop of lines 43-78 over the rows df[from..], starting from acc.
Aggregate(df, from, acc) ==
    IF from > Len(df) THEN acc
    ELSE Aggregate(df, from + 1, AggregateRow(acc, df[from]))

\* create_subreddit_network(df) up to line 78: both dicts after the loop.
AggregateAll(df) ==
    Aggregate(df, 1, [subreddit_stats |-> EmptyDict, edge_stats |-> EmptyDict])

\* One more row: the loop consumes it last, the other dataframe holds it
\* at any position.
ProcessRowPermuted ==
    /\ pc = "aggregate"
    /\ idx < MaxRows
    /\ \E row \in Rows :
        LET after == AggregateRow([subreddit_stats |-> subreddit_stats,
                                   edge_stats |-> edge_stats], row)
        IN /\ subreddit_stats' = after.subreddit_stats
           /\ edge_stats' = after.edge_stats
           /\ \E i \in 1 .. Len(permuted) + 1 :
                 permuted' = InsertAt(permuted, i, row)
    /\ idx' = idx + 1
    /\ UNCHANGED <<pc, G, netVars, communities, acpVars, outVars, error>>

NextPerm ==
    ProcessRowPermuted

SpecPerm == Init /\ [][NextPerm]_vars

------------------------------------------------------------------------------
(* Properties *)

\* analyze_conflict_propagation has returned.
Analysed ==
    \/ pc \in {"report", "visualize", "done"}
    \/ pc = "error" /\ error = "KeyError"

Nodes == DOMAIN G.nodes.at
Edges == DOMAIN G.edges.at
CommunityIds == DOMAIN community_stats.at

\* The edges with both ends in one community, and the others, by the
\* partition the analyzer used.
CrossEdges == {e \in Edges : acp_communities[e[1]] # acp_communities[e[2]]}
InternalEdges == Edges \ CrossEdges

RECURSIVE SumConflict(_)
\* The sum of weight * neg_label_ratio over a set of edges of G.
SumConflict(E) ==
    IF E = {} THEN 0
    ELSE LET e == CHOOSE x \in E : TRUE
         IN Conflict(G.edges.at[e]) + SumConflict(E \ {e})

RECURSIVE SumWeight(_)
\* The sum of weight over a set of edges of G.
SumWeight(E) ==
    IF E = {} THEN 0
    ELSE LET e == CHOOSE x \in E : TRUE
         IN G.edges.at[e].weight + SumWeight(E \ {e})

\* A ratio in [0, 1].
InUnitInterval(r) == r[2] > 0 /\ 0 <= r[1] /\ r[1] <= r[2]

\* C1: at every point of the aggregation and after it, each node has
\* negative_posts <= total_posts and each edge negative_count <= weight, and
\* the node negative_ratio, the edge neg_label_ratio and every community
\* out_conflict_ratio / in_conflict_ratio that is computed lie in [0, 1].
C1_RatiosInUnitInterval ==
    /\ \A n \in DOMAIN subreddit_stats.at :
          /\ 0 <= subreddit_stats.at[n].negative_posts
          /\ subreddit_stats.at[n].negative_posts <= subreddit_stats.at[n].total_posts
    /\ \A e \in DOMAIN edge_stats.at :
          /\ 0 <= edge_stats.at[e].negative_count
          /\ edge_stats.at[e].negative_count <= edge_stats.at[e].weight
    /\ \A n \in Nodes : InUnitInterval(G.nodes.at[n].negative_ratio)
    /\ \A e \in Edges : InUnitInterval(G.edges.at[e].neg_label_ratio)
    /\ \A c \in CommunityIds :
          /\ community_stats.at[c].out_conflict_ratio # Absent
                => InUnitInterval(community_stats.at[c].out_conflict_ratio)
          /\ community_stats.at[c].in_conflict_ratio # Absent
                => InUnitInterval(community_stats.at[c].in_conflict_ratio)

\* C1 witness: the analysis has run on a graph with an edge that is partly
\* negative, and a community has an out ratio strictly between 0 and 1.
C1_Witness ==
    /\ Analysed
    /\ \E e \in Edges : G.edges.at[e].neg_label_ratio = <<1, 2>>
    /\ \E c \in CommunityIds : community_stats.at[c].out_conflict_ratio = <<1, 2>>

\* C2 (as claimed): a step of the loop that skips a row (idx advances and no
\* edge statistic changes) leaves the node statistics alone, keeps the loop
\* going, and records the discard somewhere in the state besides the loop index.
C2_SkipIsCounted ==
    [][(pc = "aggregate" /\ idx' = idx + 1 /\ edge_stats' = edge_stats)
         => /\ subreddit_stats' = subreddit_stats
            /\ pc' = "aggregate"
            /\ <<G, netVars, communities, acpVars, outVars, error>>'
                 # <<G, netVars, communities, acpVars, outVars, error>>]_vars

\* C3 (as claimed): the community sums run over the edges that cross the
\* community's boundary only.
C3_SumsOverCrossingEdges ==
    Analysed =>
      \A c \in CommunityIds :
        LET leaving == {e \in CrossEdges : acp_communities[e[1]] = c}
            entering == {e \in CrossEdges : acp_communities[e[2]] = c}
        IN /\ community_stats.at[c].out_conflicts = SumConflict(leaving)
           /\ community_stats.at[c].total_out_links = SumWeight(leaving)
           /\ community_stats.at[c].in_conflicts = SumConflict(entering)
           /\ community_stats.at[c].total_in_links = SumWeight(entering)

\* C3 (amended): out_conflicts[c] and total_out_links[c] are the sums of
\* weight * neg_label_ratio and of weight over every edge whose source is in c,
\* in_conflicts[c] and total_in_links[c] the same sums over every edge whose
\* target is in c; an edge with both ends in c counts in all four.
C3_SumsOverIncidentEdges ==
    Analysed =>
      \A c \in {acp_communities[n] : n \in Nodes} :
        LET stats == Get(community_stats, c, CommunityDefault)
            from == {e \in Edges : acp_communities[e[1]] = c}
            to == {e \in Edges : acp_communities[e[2]] = c}
        IN /\ stats.out_conflicts = SumConflict(from)
           /\ stats.total_out_links = SumWeight(from)
           /\ stats.in_conflicts = SumConflict(to)
           /\ stats.total_in_links = SumWeight(to)

\* C3 witness: a community with an edge inside it and an edge across its
\* boundary, both carrying conflict.
C3_Witness ==
    /\ Analysed
    /\ \E e \in InternalEdges, f \in CrossEdges :
          /\ acp_communities[e[1]] \in {acp_communities[f[1]], acp_communities[f[2]]}
          /\ Conflict(G.edges.at[e]) > 0
          /\ Conflict(G.edges.at[f]) > 0

\* C4 (as claimed): every community of the result has both ratios, a ratio
\* is 0 when its total weight is 0, and reading the ratios raises nothing.
C4_RatiosDefined ==
    Analysed =>
      /\ \A c \in CommunityIds :
            /\ community_stats.at[c].out_conflict_ratio # Absent
            /\ community_stats.at[c].in_conflict_ratio # Absent
            /\ community_stats.at[c].total_out_links = 0
                  => community_stats.at[c].out_conflict_ratio = <<0, 1>>
            /\ community_stats.at[c].total_in_links = 0
                  => community_stats.at[c].in_conflict_ratio = <<0, 1>>
      /\ error # "KeyError"

RECURSIVE SumRow(_, _)
\* The sum of the values of one row of the link table.
SumRow(row, B) ==
    IF B = {} THEN 0
    ELSE LET b == CHOOSE x \in B : TRUE IN row.at[b] + SumRow(row, B \ {b})

RECURSIVE SumInter(_, _)
\* The sum of all values of the link table.
SumInter(inter, A) ==
    IF A = {} THEN 0
    ELSE LET a == CHOOSE x \in A : TRUE
         IN SumRow(inter.at[a], DOMAIN inter.at[a].at) + SumInter(inter, A \ {a})

\* C5: the link table has no entry from a community to itself, has an entry
\* for (a, b) only if some edge goes from a node of a to a node of b, and its
\* values add up to the sum of weight * neg_label_ratio over the edges whose
\* ends are in different communities.
C5_InterCommunityLinks ==
    Analysed =>
      /\ \A a \in DOMAIN inter_community_conflicts.at :
            \A b \in DOMAIN inter_community_conflicts.at[a].at :
               /\ a # b
               /\ \E e \in Edges : /\ acp_communities[e[1]] = a
                                   /\ acp_communities[e[2]] = b
      /\ SumInter(inter_community_conflicts, DOMAIN inter_community_conflicts.at)
           = SumConflict(CrossEdges)

\* C5 witness: the table has an entry, conflict crosses a community boundary,
\* and an edge with conflict stays inside a community.
C5_Witness ==
    /\ Analysed
    /\ inter_community_conflicts.keys # <<>>
    /\ SumConflict(CrossEdges) > 0
    /\ SumConflict(InternalEdges) > 0

\* The cross-community edges at node n, in either direction.
CrossEdgesAt(n) == {e \in CrossEdges : e[1] = n \/ e[2] = n}

\* C6: the bridge table has an entry exactly for the nodes with a
\* cross-community edge, and the entry is the sum of weight * neg_label_ratio
\* over those edges, incoming and outgoing.
C6_BridgeScores ==
    Analysed =>
      /\ DOMAIN bridge_nodes.at = {n \in Nodes : CrossEdgesAt(n) # {}}
      /\ \A n \in DOMAIN bridge_nodes.at :
            bridge_nodes.at[n] = SumConflict(CrossEdgesAt(n))

\* C6 witness: a node with an incoming and an outgoing cross-community edge,
\* both with conflict.
C6_Witness ==
    /\ Analysed
    /\ \E n \in Nodes :
          /\ \E e \in CrossEdges : e[1] = n /\ Conflict(G.edges.at[e]) > 0
          /\ \E e \in CrossEdges : e[2] = n /\ Conflict(G.edges.at[e]) > 0

\* C7 (as claimed): the partition main computes for the labels is the one
\* analyze_conflict_propagation computed for the statistics.
C7_SamePartition ==
    Analysed => communities = acp_communities

\* C8: the member sets the analyzer records are non-empty and pairwise
\* disjoint, their union is the node set of the graph, and the size the
\* community graph reports is the size of the member set.
C8_MembersPartitionNodes ==
    /\ Analysed =>
         /\ \A c \in CommunityIds : community_stats.at[c].nodes # {}
         /\ \A c, d \in CommunityIds :
               c # d => community_stats.at[c].nodes \cap community_stats.at[d].nodes = {}
         /\ UNION {community_stats.at[c].nodes : c \in CommunityIds} = Nodes
    /\ pc = "done" =>
         \A c \in CommunityIds :
            comm_graph.nodes.at[c].size = Cardinality(community_stats.at[c].nodes)

\* C8 witness: the community graph is built from two communities, one of
\* them with two members, one of which only receives links.
C8_Witness ==
    /\ pc = "done"
    /\ Cardinality(CommunityIds) = 2
    /\ \E c \in CommunityIds :
          /\ Cardinality(community_stats.at[c].nodes) = 2
          /\ \E n \in community_stats.at[c].nodes : \A e \in Edges : e[1] # n

\* C9 (as claimed): with zero nodes after aggregation no analysis step runs
\* on the graph, and the pipeline ends in an EmptyGraph condition.
C9_EmptyGraphSurfaced ==
    (pc \notin {"aggregate", "build"} /\ number_of_nodes(G) = 0) =>
      /\ pc # "degree_stats"
      /\ pc = "error" => error = "EmptyGraph"

\* C10 (as claimed): the bridge ranking is in descending order of score, and
\* nodes with equal scores are in ascending order of node id.
C10_RankingOrder ==
    pc \in {"visualize", "done"} =>
      \A i, j \in 1 .. Len(report.top_bridges) :
         i < j =>
           \/ report.top_bridges[i][2] > report.top_bridges[j][2]
           \/ /\ report.top_bridges[i][2] = report.top_bridges[j][2]
              /\ report.top_bridges[i][1] < report.top_bridges[j][1]


RECURSIVE SumStatWeight(_, _)
\* The sum of weight over a set of keys of an edge_stats dict.
SumStatWeight(stats, E) ==
    IF E = {} THEN 0
    ELSE LET e == CHOOSE x \in E : TRUE
         IN stats.at[e].weight + SumStatWeight(stats, E \ {e})

\* No key occurs twice in the insertion order of a dict.
UniqueKeys(d) ==
    \A i, j \in 1 .. Len(d.keys) : i # j => d.keys[i] # d.keys[j]

\* C11: during and after the aggregation, the weights of a node's outgoing
\* edges add up to at most its out_degree, there is one edge per ordered
\* (source, target) pair, and every edge has weight >= 1; the same holds of
\* the graph that is built.
C11_OutWeightWithinOutDegree ==
    /\ \A n \in DOMAIN subreddit_stats.at :
          SumStatWeight(edge_stats, {e \in DOMAIN edge_stats.at : e[1] = n})
             <= subreddit_stats.at[n].out_degree
    /\ \A e \in DOMAIN edge_stats.at :
          /\ edge_stats.at[e].weight >= 1
          /\ e[1] \in DOMAIN subreddit_stats.at
    /\ UniqueKeys(edge_stats)
    /\ \A n \in Nodes :
          SumWeight({e \in Edges : e[1] = n}) <= G.nodes.at[n].out_degree
    /\ \A e \in Edges : G.edges.at[e].weight >= 1 /\ e[1] \in Nodes
    /\ UniqueKeys(G.edges)
    /\ pc \notin {"aggregate", "build"} => Len(G.edges.keys) = Len(edge_stats.keys)

\* C11 witness: the graph is built, two rows of one (source, target) pair
\* are one edge of weight 2, or one node has two outgoing edges.
C11_Witness ==
    /\ pc = "analyze_network"
    /\ \/ \E e \in Edges : G.edges.at[e].weight = 2
       \/ \E e, f \in Edges : e # f /\ e[1] = f[1]

\* C12: the aggregation of a permutation of the rows has the same nodes with
\* the same out_degree, in_degree, total_posts and negative_posts, and the
\* same edges with the same weight and negative_count.
C12_OrderIndependent ==
    LET other == AggregateAll(permuted)
        n1 == subreddit_stats.at
        n2 == other.subreddit_stats.at
        e1 == edge_stats.at
        e2 == other.edge_stats.at
    IN /\ DOMAIN n1 = DOMAIN n2
       /\ \A n \in DOMAIN n1 :
             /\ n1[n].out_degree = n2[n].out_degree
             /\ n1[n].in_degree = n2[n].in_degree
             /\ n1[n].total_posts = n2[n].total_posts
             /\ n1[n].negative_posts = n2[n].negative_posts
       /\ DOMAIN e1 = DOMAIN e2
       /\ \A e \in DOMAIN e1 :
             /\ e1[e].weight = e2[e].weight
             /\ e1[e].negative_count = e2[e].negative_count

\* C12 witness: two valid rows, one of them negative, share a node and are
\* aggregated in two orders that meet the nodes in different orders.
C12_Witness ==
    LET other == AggregateAll(permuted)
    IN /\ Len(permuted) = 2
       /\ permuted[1].TIMESTAMP # NaT
       /\ permuted[2].TIMESTAMP # NaT
       /\ permuted[1].POST_LABEL # permuted[2].POST_LABEL
       /\ subreddit_stats.keys # other.subreddit_stats.keys
       /\ edge_stats.keys # other.edge_stats.keys
       /\ \E n \in DOMAIN subreddit_stats.at :
             /\ subreddit_stats.at[n].total_posts = 2
             /\ subreddit_stats.at[n].negative_posts = 1

\* C13: no node has a primary role while rows are still being processed;
\* once the graph is built every aggregated node has one, which is 'source'
\* exactly when its source_count is strictly greater than its target_count
\* and 'target' otherwise, ties included.
C13_PrimaryType ==
    /\ pc \in {"aggregate", "build"} => Nodes = {}
    /\ pc \notin {"aggregate", "build"} => Nodes = DOMAIN subreddit_stats.at
    /\ \A n \in Nodes :
          LET stats == subreddit_stats.at[n]
          IN /\ G.nodes.at[n].primary_type \in {"source", "target"}
             /\ G.nodes.at[n].primary_type = "source"
                   <=> stats.source_count > stats.target_count
             /\ stats.source_count = stats.target_count
                   => G.nodes.at[n].primary_type = "target"

\* C13 witness: the graph is built; a node whose only row links it to
\* itself is a 'target', another node with more rows as origin than as
\* recipient is a 'source'.
C13_Witness ==
    /\ pc = "analyze_network"
    /\ \E n \in Nodes :
          /\ <<n, n>> \in Edges
          /\ subreddit_stats.at[n].total_posts = 2
          /\ subreddit_stats.at[n].source_count = 1
          /\ subreddit_stats.at[n].target_count = 1
          /\ G.nodes.at[n].primary_type = "target"
    /\ \E n \in Nodes :
          /\ subreddit_stats.at[n].source_count > subreddit_stats.at[n].target_count
          /\ G.nodes.at[n].primary_type = "source"

====
